---- MODULE Spec2Model ----
(***************************************************************************)
(* A model of src/src/math.js: findPeaks and the helpers it calls          *)
(* (localMaxima1D, unpackConditionArgs, selectByProperty,                  *)
(* selectByPeakDistance, peakProminences, peakWidths).                     *)
(*                                                                         *)
(* JavaScript values are records tagged by k:                              *)
(*   [k |-> "undefined"], [k |-> "null"],                                  *)
(*   [k |-> "number", n |-> numerator, d |-> denominator]   (d > 0, in     *)
(*        lowest terms; d = 0 stands for NaN (n = 0) and +-Infinity        *)
(*        (n = +-1)),                                                      *)
(*   [k |-> "array", a |-> <<elements>>].                                  *)
(* Arrays held in variables of the code that are always arrays (x, peaks,  *)
(* keep, ...) are plain TLA+ sequences, 1-based; index i of the code is    *)
(* position i + 1 of the sequence.                                         *)
(* A value computed once and used several times in the code is passed as   *)
(* a parameter to a helper operator (named ...With, ...From or ...Of).     *)
(***************************************************************************)
EXTENDS Integers, Sequences, FiniteSets, TLC

\* Longest signal drawn.
MaxLen == 5

\* The sample values drawn.
Samples == {0, 1, 2}

(***************************************************************************)
(* JavaScript values and arithmetic                                        *)
(***************************************************************************)
Undefined == [k |-> "undefined"]

Null == [k |-> "null"]

NaN == [k |-> "number", n |-> 0, d |-> 0]

Abs(i) == IF i < 0 THEN -i ELSE i

Sign(i) == IF i < 0 THEN -1 ELSE IF i > 0 THEN 1 ELSE 0

RECURSIVE GCD(_, _)
GCD(a, b) == IF b = 0 THEN a ELSE GCD(b, a % b)

\* n/d with the common divisor g taken out and the denominator made positive.
Reduced(n, d, g) == [k |-> "number", n |-> Sign(d) * (n \div g), d |-> Abs(d) \div g]

\* The number n/d (d # 0) in lowest terms.
Number(n, d) == IF d = 1 THEN [k |-> "number", n |-> n, d |-> 1]
                ELSE Reduced(n, d, GCD(Abs(n), Abs(d)))

\* The integer i.
Num(i) == [k |-> "number", n |-> i, d |-> 1]

Infinity(s) == [k |-> "number", n |-> s, d |-> 0]

Array(a) == [k |-> "array", a |-> a]

IsNaN(v) == v.k = "number" /\ v.d = 0 /\ v.n = 0

IsFinite(v) == v.k = "number" /\ v.d > 0

IsInteger(v) == v.k = "number" /\ v.d = 1

\* The conversion the arithmetic and relational operators apply to an operand:
\* undefined becomes NaN, null becomes 0.
ToNumber(v) ==
    IF v.k = "number" THEN v
    ELSE IF v.k = "null" THEN Num(0)
    ELSE NaN

LtNumbers(u, v) ==
    /\ ~IsNaN(u)
    /\ ~IsNaN(v)
    /\ IF u.d = 0 /\ v.d = 0 THEN u.n < v.n ELSE u.n * v.d < v.n * u.d

LeNumbers(u, v) ==
    /\ ~IsNaN(u)
    /\ ~IsNaN(v)
    /\ IF u.d = 0 /\ v.d = 0 THEN u.n <= v.n ELSE u.n * v.d <= v.n * u.d

\* a < b: false when either side is NaN (or undefined).
Lt(a, b) == LtNumbers(ToNumber(a), ToNumber(b))

\* a <= b: false when either side is NaN (or undefined).
Le(a, b) == LeNumbers(ToNumber(a), ToNumber(b))

\* a === b (and a == b between two numbers).
StrictEquals(a, b) ==
    /\ a.k = b.k
    /\ a.k = "number" => (~IsNaN(a) /\ a = b)

AddNumbers(u, v) ==
    IF u.d = 1 /\ v.d = 1 THEN Num(u.n + v.n)
    ELSE IF IsNaN(u) \/ IsNaN(v) THEN NaN
    ELSE IF u.d = 0 /\ v.d = 0 THEN (IF u.n = v.n THEN u ELSE NaN)
    ELSE IF u.d = 0 THEN u
    ELSE IF v.d = 0 THEN v
    ELSE Number(u.n * v.d + v.n * u.d, u.d * v.d)

NegNumber(u) == [u EXCEPT !.n = -u.n]

MulNumbers(u, v) ==
    IF IsNaN(u) \/ IsNaN(v) THEN NaN
    ELSE IF u.d = 0 \/ v.d = 0
         THEN (IF u.n = 0 \/ v.n = 0 THEN NaN ELSE Infinity(Sign(u.n) * Sign(v.n)))
    ELSE Number(u.n * v.n, u.d * v.d)

DivNumbers(u, v) ==
    IF IsNaN(u) \/ IsNaN(v) THEN NaN
    ELSE IF u.d = 0 THEN (IF v.d = 0 THEN NaN
                          ELSE Infinity(u.n * (IF v.n < 0 THEN -1 ELSE 1)))
    ELSE IF v.d = 0 THEN Num(0)
    ELSE IF v.n = 0 THEN (IF u.n = 0 THEN NaN ELSE Infinity(Sign(u.n)))
    ELSE Number(u.n * v.d, u.d * v.n)

\* a + b
Add(a, b) == AddNumbers(ToNumber(a), ToNumber(b))

\* a - b
Sub(a, b) == AddNumbers(ToNumber(a), NegNumber(ToNumber(b)))

\* a * b
Mul(a, b) == MulNumbers(ToNumber(a), ToNumber(b))

\* a / b
Div(a, b) == DivNumbers(ToNumber(a), ToNumber(b))

MaxNumbers(u, v) == IF IsNaN(u) \/ IsNaN(v) THEN NaN ELSE IF LtNumbers(u, v) THEN v ELSE u

MinNumbers(u, v) == IF IsNaN(u) \/ IsNaN(v) THEN NaN ELSE IF LtNumbers(v, u) THEN v ELSE u

\* Math.max(a, b)
MathMax(a, b) == MaxNumbers(ToNumber(a), ToNumber(b))

\* Math.min(a, b)
MathMin(a, b) == MinNumbers(ToNumber(a), ToNumber(b))

CeilNumber(u) == IF u.d = 0 THEN u ELSE Num(-((-u.n) \div u.d))

FloorNumber(u) == IF u.d = 0 THEN u ELSE Num(u.n \div u.d)

\* A plausible slip: rounding the distance down instead of up.
MathFloor(v) == FloorNumber(ToNumber(v))

\* Math.ceil(v)
MathCeil(v) == CeilNumber(ToNumber(v))

\* A plausible slip (the indexing of the language the algorithm was ported
\* from): a negative index counts from the end of the array.
ArrayGetWrapping(a, i) ==
    IF IsInteger(i) /\ -Len(a) <= i.n /\ i.n < Len(a)
    THEN a[(IF i.n < 0 THEN i.n + Len(a) ELSE i.n) + 1]
    ELSE Undefined

\* a[i] for an array a: undefined unless i is an integer index inside a.
ArrayGet(a, i) ==
    IF IsInteger(i) /\ 0 <= i.n /\ i.n < Len(a) THEN a[i.n + 1] ELSE Undefined

\* v !== undefined && v !== null
isSome(v) == v # Undefined /\ v # Null

\* a.filter((_, i) => keep[i]) from position n (1-based) on: an element whose
\* keep[i] is missing is dropped.
RECURSIVE FilterFrom(_, _, _)
FilterFrom(a, keep, n) ==
    IF n > Len(a) THEN <<>>
    ELSE IF n <= Len(keep) /\ keep[n] THEN <<a[n]>> \o FilterFrom(a, keep, n + 1)
    ELSE FilterFrom(a, keep, n + 1)

Filter(a, keep) == FilterFrom(a, keep, 1)

\* peaks.map((i) => a[i])
MapIndex(a, peaks) == [p \in 1..Len(peaks) |-> ArrayGet(a, peaks[p])]

(***************************************************************************)
(* localMaxima1D                                                           *)
(***************************************************************************)
\* A plausible slip: the inner loop left out, so that only single-sample
\* peaks are seen.
plateauEndAtOnce(x, i, iAhead) == iAhead

\* The inner loop: the first iAhead at or after `iAhead` that is iMax or whose
\* sample differs from x[i].
RECURSIVE plateauEnd(_, _, _)
plateauEnd(x, i, iAhead) ==
    IF iAhead < Len(x) - 1 /\ StrictEquals(ArrayGet(x, Num(iAhead)), ArrayGet(x, Num(i)))
    THEN plateauEnd(x, i, iAhead + 1)
    ELSE iAhead

\* A plausible slip: the midpoint taken from the first recorded edges instead
\* of the last.
midpointOfFirst(leftEdges, rightEdges) ==
    Div(Add(leftEdges[1], rightEdges[1]), Num(2))

\* (leftEdges[leftEdges.length - 1] + rightEdges[rightEdges.length - 1]) / 2
midpointOfLast(leftEdges, rightEdges) ==
    Div(Add(leftEdges[Len(leftEdges)], rightEdges[Len(rightEdges)]), Num(2))

\* A plausible slip: the left edge recorded as the peak.
pushLeftEdge(midpoints, leftEdges, rightEdges) ==
    [midpoints |-> Append(midpoints, leftEdges[Len(leftEdges)]),
     leftEdges |-> leftEdges,
     rightEdges |-> rightEdges]

\* The three pushes, given the arrays of edges after theirs.
pushMidpoint(midpoints, leftEdges, rightEdges) ==
    [midpoints |-> Append(midpoints, midpointOfLast(leftEdges, rightEdges)),
     leftEdges |-> leftEdges,
     rightEdges |-> rightEdges]

RECURSIVE localMaxima1DLoop(_, _, _)
RECURSIVE localMaxima1DAhead(_, _, _, _)

\* The body of if (x[i - 1] < x[i]) once the inner loop has stopped at iAhead.
localMaxima1DAhead(x, i, iAhead, acc) ==
    IF Lt(ArrayGet(x, Num(iAhead)), ArrayGet(x, Num(i)))
    THEN localMaxima1DLoop(x, iAhead + 1,
             pushMidpoint(acc.midpoints, Append(acc.leftEdges, Num(i)),
                          Append(acc.rightEdges, Num(iAhead - 1))))
    ELSE localMaxima1DLoop(x, i + 1, acc)

\* The outer loop from position i on, with the arrays built so far.
localMaxima1DLoop(x, i, acc) ==
    IF ~(i < Len(x) - 1) THEN acc
    ELSE IF Lt(ArrayGet(x, Num(i - 1)), ArrayGet(x, Num(i)))
    THEN localMaxima1DAhead(x, i, plateauEnd(x, i, i + 1), acc)
    ELSE localMaxima1DLoop(x, i + 1, acc)

localMaxima1D(x) ==
    localMaxima1DLoop(x, 0, [midpoints |-> <<>>, leftEdges |-> <<>>, rightEdges |-> <<>>])

(***************************************************************************)
(* unpackConditionArgs and selectByProperty                                *)
(***************************************************************************)

\* A plausible slip: a per-sample bound is checked for its length and then
\* handed on whole, so that selectByProperty reads it by position in peaks.
unpackBordersUnprojected(imin, imax, x, peaks) ==
    IF imin.k = "array" /\ Len(imin.a) # Len(x)
    THEN [threw |-> "array size of lower interval border must match x",
          imin |-> Undefined, imax |-> Undefined]
    ELSE IF imax.k = "array" /\ Len(imax.a) # Len(x)
    THEN [threw |-> "array size of upper interval border must match x",
          imin |-> Undefined, imax |-> Undefined]
    ELSE [threw |-> "", imin |-> imin, imax |-> imax]

\* The rest of unpackConditionArgs once imin and imax are destructured.  The
\* result is [threw, imin, imax]: threw is the message of the error raised,
\* "" when none is.
unpackBorders(imin, imax, x, peaks) ==
    IF imin.k = "array" /\ Len(imin.a) # Len(x)
    THEN [threw |-> "array size of lower interval border must match x",
          imin |-> Undefined, imax |-> Undefined]
    ELSE IF imax.k = "array" /\ Len(imax.a) # Len(x)
    THEN [threw |-> "array size of upper interval border must match x",
          imin |-> Undefined, imax |-> Undefined]
    ELSE [threw |-> "",
          imin |-> IF imin.k = "array" THEN Array(MapIndex(imin.a, peaks)) ELSE imin,
          imax |-> IF imax.k = "array" THEN Array(MapIndex(imax.a, peaks)) ELSE imax]

\* Destructuring [imin, imax] = interval takes the first two elements of an
\* array (undefined where there is none) and throws for a number, which the
\* catch turns into (interval, null).
unpackConditionArgs(interval, x, peaks) ==
    IF interval.k = "array"
    THEN unpackBorders(ArrayGet(interval.a, Num(0)), ArrayGet(interval.a, Num(1)), x, peaks)
    ELSE unpackBorders(interval, Null, x, peaks)

\* The bound that applies to position i (0-based) of the property array.
boundAt(bound, i) == IF bound.k = "array" THEN ArrayGet(bound.a, Num(i)) ELSE bound

\* A plausible slip: the upper bound is never applied.
selectByPropertyLowerOnly(peakProperties, pmin, pmax) ==
    [i \in 1..Len(peakProperties) |->
        isSome(pmin) => Le(boundAt(pmin, i - 1), peakProperties[i])]

\* The keep-mask: position i is kept iff pmin <= property <= pmax, a bound
\* that is undefined or null not constraining.
selectByProperty(peakProperties, pmin, pmax) ==
    [i \in 1..Len(peakProperties) |->
        /\ isSome(pmin) => Le(boundAt(pmin, i - 1), peakProperties[i])
        /\ isSome(pmax) => Le(peakProperties[i], boundAt(pmax, i - 1))]

(***************************************************************************)
(* selectByPeakDistance                                                    *)
(***************************************************************************)
\* The orders of the positions 0 .. n-1.
PositionOrders(n) ==
    {p \in [1..n -> 0..(n - 1)] : \A a, b \in 1..n : p[a] = p[b] => a = b}

\* The comparator ([a], [b]) => a - b yields a negative number.
comparesBefore(a, b) == Lt(Sub(a, b), Num(0))

\* The comparator is consistent on the priorities unless some difference is
\* NaN (an undefined priority) while two others differ.
consistentComparator(priority) ==
    \/ \A i \in 1..Len(priority) : IsFinite(ToNumber(priority[i]))
    \/ \A i, j \in 1..Len(priority) : ~comparesBefore(priority[i], priority[j])

\* priority.map((p, i) => [p, i]).sort(([a], [b]) => a - b).map(([, i]) => i):
\* the positions in ascending priority, equal priorities in array order (the
\* sort is stable); with an inconsistent comparator the order is
\* implementation-defined, so every order is an outcome.
sortedPositions(priority) ==
    IF consistentComparator(priority)
    THEN {p \in PositionOrders(Len(priority)) :
            \A a, b \in 1..Len(priority) : a < b =>
                /\ ~comparesBefore(priority[p[b] + 1], priority[p[a] + 1])
                /\ ~comparesBefore(priority[p[a] + 1], priority[p[b] + 1]) => p[a] < p[b]}
    ELSE PositionOrders(Len(priority))

\* while (0 <= k && peaks[j] - peaks[k] < distance_) { keep[k] = false; k -= 1 }
RECURSIVE suppressLeft(_, _, _, _, _)
suppressLeft(peaks, keep, j, k, distance_) ==
    IF 0 <= k /\ Lt(Sub(peaks[j + 1], peaks[k + 1]), distance_)
    THEN suppressLeft(peaks, [keep EXCEPT ![k + 1] = FALSE], j, k - 1, distance_)
    ELSE keep

\* while (k < peaksSize && peaks[k] - peaks[j] < distance_) { keep[k] = false; k += 1 }
RECURSIVE suppressRight(_, _, _, _, _)
suppressRight(peaks, keep, j, k, distance_) ==
    IF k < Len(peaks) /\ Lt(Sub(peaks[k + 1], peaks[j + 1]), distance_)
    THEN suppressRight(peaks, [keep EXCEPT ![k + 1] = FALSE], j, k + 1, distance_)
    ELSE keep

\* The body of the for loop for position j, past the test of keep[j].
suppressAround(peaks, keep, j, distance_) ==
    suppressRight(peaks, suppressLeft(peaks, keep, j, j - 1, distance_), j, j + 1, distance_)

\* for (let i = ...; i >= -1; i--) from i on.  At i = -1, j is undefined: keep[j]
\* is not false, k is NaN and neither while loop runs.
RECURSIVE distanceLoop(_, _, _, _, _)
distanceLoop(peaks, priorityToPosition, distance_, i, keep) ==
    IF ~(i >= -1) THEN keep
    ELSE IF ~(0 <= i /\ i < Len(priorityToPosition))
    THEN distanceLoop(peaks, priorityToPosition, distance_, i - 1, keep)
    ELSE IF keep[priorityToPosition[i + 1] + 1] = FALSE
    THEN distanceLoop(peaks, priorityToPosition, distance_, i - 1, keep)
    ELSE distanceLoop(peaks, priorityToPosition, distance_, i - 1,
             suppressAround(peaks, keep, priorityToPosition[i + 1], distance_))

\* selectByPeakDistance past the sort, given the order the sort produced.
selectByPeakDistanceSorted(peaks, priorityToPosition, distance) ==
    distanceLoop(peaks, priorityToPosition, MathCeil(distance), Len(peaks) - 2,
                 [i \in 1..Len(peaks) |-> TRUE])

\* The keep-masks selectByPeakDistance can return: one for each outcome of
\* the sort.
selectByPeakDistance(peaks, priority, distance) ==
    {selectByPeakDistanceSorted(peaks, priorityToPosition, distance) :
        priorityToPosition \in sortedPositions(priority)}

(***************************************************************************)
(* peakProminences                                                         *)
(***************************************************************************)
\* A plausible slip: the minimum replaced on a tie too, so that the base is
\* the farthest of the lowest samples instead of the nearest.
RECURSIVE walkLeftToFarthest(_, _, _, _, _)
walkLeftToFarthest(x, peak, iMin, i, acc) ==
    IF Le(iMin, i) /\ Le(ArrayGet(x, i), ArrayGet(x, peak))
    THEN walkLeftToFarthest(x, peak, iMin, Sub(i, Num(1)),
                            IF Le(ArrayGet(x, i), acc.min)
                            THEN [min |-> ArrayGet(x, i), base |-> i] ELSE acc)
    ELSE acc

\* while (iMin <= i && x[i] <= x[peak]) { if (x[i] < leftMin) {...}; i -= 1 }
\* from i on; acc is the minimum met so far and its index.
RECURSIVE walkLeft(_, _, _, _, _)
walkLeft(x, peak, iMin, i, acc) ==
    IF Le(iMin, i) /\ Le(ArrayGet(x, i), ArrayGet(x, peak))
    THEN walkLeft(x, peak, iMin, Sub(i, Num(1)),
                  IF Lt(ArrayGet(x, i), acc.min)
                  THEN [min |-> ArrayGet(x, i), base |-> i] ELSE acc)
    ELSE acc

\* A plausible slip: the right walk goes on only over samples strictly below
\* the peak, so it never leaves the peak.
RECURSIVE walkRightBelowPeak(_, _, _, _, _)
walkRightBelowPeak(x, peak, iMax, i, acc) ==
    IF Le(i, iMax) /\ Lt(ArrayGet(x, i), ArrayGet(x, peak))
    THEN walkRightBelowPeak(x, peak, iMax, Add(i, Num(1)),
                            IF Lt(ArrayGet(x, i), acc.min)
                            THEN [min |-> ArrayGet(x, i), base |-> i] ELSE acc)
    ELSE acc

\* while (i <= iMax && x[i] <= x[peak]) { if (x[i] < rightMin) {...}; i += 1 }
RECURSIVE walkRight(_, _, _, _, _)
walkRight(x, peak, iMax, i, acc) ==
    IF Le(i, iMax) /\ Le(ArrayGet(x, i), ArrayGet(x, peak))
    THEN walkRight(x, peak, iMax, Add(i, Num(1)),
                   IF Lt(ArrayGet(x, i), acc.min)
                   THEN [min |-> ArrayGet(x, i), base |-> i] ELSE acc)
    ELSE acc

\* The end of one iteration: prominences[peakNr] and the warning flag.
withProminence(acc, prominence, leftBase, rightBase) ==
    [threw |-> FALSE,
     prominences |-> Append(acc.prominences, prominence),
     leftBases |-> Append(acc.leftBases, leftBase),
     rightBases |-> Append(acc.rightBases, rightBase),
     showWarning |-> acc.showWarning \/ StrictEquals(prominence, Num(0))]

\* A plausible slip: the prominence measured from the lower of the two
\* minima instead of the higher.
prominenceFromLowerMin(x, peak, left, right, acc) ==
    withProminence(acc, Sub(ArrayGet(x, peak), MathMin(left.min, right.min)),
                   left.base, right.base)

\* One iteration past the check of the peak, given the two walks' results.
prominenceFromWalks(x, peak, left, right, acc) ==
    withProminence(acc, Sub(ArrayGet(x, peak), MathMax(left.min, right.min)),
                   left.base, right.base)

\* One iteration past the check of the peak, in the window iMin .. iMax.
prominenceInWindow(x, peak, iMin, iMax, acc) ==
    prominenceFromWalks(x, peak,
        walkLeft(x, peak, iMin, peak, [min |-> ArrayGet(x, peak), base |-> peak]),
        walkRight(x, peak, iMax, peak, [min |-> ArrayGet(x, peak), base |-> peak]),
        acc)

\* One iteration of the loop over the peaks.
prominenceOfPeak(x, peak, wlen, acc) ==
    IF ~(Le(Num(0), peak) /\ Le(peak, Num(Len(x) - 1)))
    THEN [acc EXCEPT !.threw = TRUE]
    ELSE IF Le(Num(2), wlen)
    THEN prominenceInWindow(x, peak, MathMax(Num(0), Sub(peak, wlen)),
                            MathMin(Num(Len(x) - 1), Add(peak, wlen)), acc)
    ELSE prominenceInWindow(x, peak, Num(0), Num(Len(x) - 1), acc)

\* for (let peakNr = 0; peakNr < peaks.length; peakNr++) from peakNr on
\* (1-based here), stopping at the first throw.
RECURSIVE peakProminencesLoop(_, _, _, _, _)
peakProminencesLoop(x, peaks, wlen, peakNr, acc) ==
    IF acc.threw \/ peakNr > Len(peaks) THEN acc
    ELSE peakProminencesLoop(x, peaks, wlen, peakNr + 1,
                             prominenceOfPeak(x, peaks[peakNr], wlen, acc))

\* The result is [threw, prominences, leftBases, rightBases, showWarning]:
\* threw is TRUE when some peak is not a valid index, and nothing is returned
\* then.
peakProminences(x, peaks, wlen) ==
    peakProminencesLoop(x, peaks, wlen, 1,
        [threw |-> FALSE, prominences |-> <<>>, leftBases |-> <<>>,
         rightBases |-> <<>>, showWarning |-> FALSE])

(***************************************************************************)
(* peakWidths                                                              *)
(***************************************************************************)
\* while (iMin < i && height < x[i]) { i -= 1 }
RECURSIVE descendLeft(_, _, _, _)
descendLeft(x, height, iMin, i) ==
    IF Lt(iMin, i) /\ Lt(height, ArrayGet(x, i))
    THEN descendLeft(x, height, iMin, Sub(i, Num(1)))
    ELSE i

\* while (i < iMax && height < x[i]) { i += 1 }
RECURSIVE descendRight(_, _, _, _)
descendRight(x, height, iMax, i) ==
    IF Lt(i, iMax) /\ Lt(height, ArrayGet(x, i))
    THEN descendRight(x, height, iMax, Add(i, Num(1)))
    ELSE i

\* A plausible slip: the left position is not interpolated.
leftIpAtSample(x, height, i) == i

\* let leftIp = i; if (x[i] < height) leftIp += (height - x[i]) / (x[i + 1] - x[i])
leftIpFrom(x, height, i) ==
    IF Lt(ArrayGet(x, i), height)
    THEN Add(i, Div(Sub(height, ArrayGet(x, i)),
                    Sub(ArrayGet(x, Add(i, Num(1))), ArrayGet(x, i))))
    ELSE i

\* A plausible slip: the right position interpolated towards the sample
\* after i, as the left one is, instead of the sample before it.
rightIpTowardsNext(x, height, i) ==
    IF Lt(ArrayGet(x, i), height)
    THEN Sub(i, Div(Sub(height, ArrayGet(x, i)),
                    Sub(ArrayGet(x, Add(i, Num(1))), ArrayGet(x, i))))
    ELSE i

\* let rightIp = i; if (x[i] < height) rightIp -= (height - x[i]) / (x[i - 1] - x[i])
rightIpFrom(x, height, i) ==
    IF Lt(ArrayGet(x, i), height)
    THEN Sub(i, Div(Sub(height, ArrayGet(x, i)),
                    Sub(ArrayGet(x, Sub(i, Num(1))), ArrayGet(x, i))))
    ELSE i

\* A plausible slip: a width of 0 raised as an error instead of noted for the
\* warning.
withWidthOrAbort(acc, height, leftIp, rightIp) ==
    IF StrictEquals(Sub(rightIp, leftIp), Num(0))
    THEN [acc EXCEPT !.threw = "Some peaks have a width of 0"]
    ELSE [threw |-> "",
          widths |-> Append(acc.widths, Sub(rightIp, leftIp)),
          widthHeights |-> Append(acc.widthHeights, height),
          leftIps |-> Append(acc.leftIps, leftIp),
          rightIps |-> Append(acc.rightIps, rightIp),
          showWarning |-> acc.showWarning]

\* The end of one iteration: widths[p], the warning flag, leftIps[p], rightIps[p].
withWidth(acc, height, leftIp, rightIp) ==
    [threw |-> "",
     widths |-> Append(acc.widths, Sub(rightIp, leftIp)),
     widthHeights |-> Append(acc.widthHeights, height),
     leftIps |-> Append(acc.leftIps, leftIp),
     rightIps |-> Append(acc.rightIps, rightIp),
     showWarning |-> acc.showWarning \/ StrictEquals(Sub(rightIp, leftIp), Num(0))]

\* One iteration past the check of the bases, at the evaluation height.
widthAtHeight(x, peak, height, iMin, iMax, acc) ==
    withWidth(acc, height,
              leftIpFrom(x, height, descendLeft(x, height, iMin, peak)),
              rightIpFrom(x, height, descendRight(x, height, iMax, peak)))

\* A plausible slip: the bases of a peak are used without the check of
\* lines 393-395.
widthOfPeakUnchecked(x, peak, relHeight, prominence, iMin, iMax, acc) ==
    widthAtHeight(x, peak, Sub(ArrayGet(x, peak), Mul(prominence, relHeight)),
                  iMin, iMax, acc)

\* One iteration of the loop over the peaks.
widthOfPeak(x, peak, relHeight, prominence, iMin, iMax, acc) ==
    IF ~(Le(Num(0), iMin) /\ Le(iMin, peak) /\ Le(peak, iMax) /\ Lt(iMax, Num(Len(x))))
    THEN [acc EXCEPT !.threw = "prominence data is invalid for peak"]
    ELSE widthAtHeight(x, peak, Sub(ArrayGet(x, peak), Mul(prominence, relHeight)),
                       iMin, iMax, acc)

\* for (let p = 0; p < peaks.length; p++) from p on (1-based here), stopping
\* at the first throw.
RECURSIVE peakWidthsLoop(_, _, _, _, _, _, _, _)
peakWidthsLoop(x, peaks, relHeight, prominences, leftBases, rightBases, p, acc) ==
    IF acc.threw # "" \/ p > Len(peaks) THEN acc
    ELSE peakWidthsLoop(x, peaks, relHeight, prominences, leftBases, rightBases, p + 1,
             widthOfPeak(x, peaks[p], relHeight, prominences[p],
                         leftBases[p], rightBases[p], acc))

\* The result is [threw, widths, widthHeights, leftIps, rightIps,
\* showWarning]: threw is the message of the error raised, "" when none is,
\* and nothing is returned when one is.
peakWidths(x, peaks, relHeight, prominences, leftBases, rightBases) ==
    IF Lt(relHeight, Num(0))
    THEN [threw |-> "relHeight must be greater or equal to 0",
          widths |-> <<>>, widthHeights |-> <<>>, leftIps |-> <<>>,
          rightIps |-> <<>>, showWarning |-> FALSE]
    ELSE IF ~(Len(peaks) = Len(prominences) /\ Len(prominences) = Len(leftBases)
              /\ Len(leftBases) = Len(rightBases))
    THEN [threw |-> "peaks, prominences, leftBases and rightBases must have the same length",
          widths |-> <<>>, widthHeights |-> <<>>, leftIps |-> <<>>,
          rightIps |-> <<>>, showWarning |-> FALSE]
    ELSE peakWidthsLoop(x, peaks, relHeight, prominences, leftBases, rightBases, 1,
             [threw |-> "", widths |-> <<>>, widthHeights |-> <<>>, leftIps |-> <<>>,
              rightIps |-> <<>>, showWarning |-> FALSE])

(***************************************************************************)
(* findPeaks as a state machine: one action for each block of its body.    *)
(*   x, options   the arguments                                            *)
(*   peaks        the local `peaks` (empty until the scan assigns it)      *)
(*   properties   the local object `properties`: a function from its own   *)
(*                keys to their values, Array(..) or Undefined             *)
(*   pc           the block about to run; "returned" and "threw" are final *)
(*   error        the message of the error thrown, "" when none            *)
(*   warnings     the messages written with console.warn                   *)
(*   calls        the outcomes of the calls that have finished, in order   *)
(*   sortOf       the order Array.prototype.sort gave for each array of    *)
(*                priorities it has sorted: where the order is left to the *)
(*                implementation it can be any, and is the same whenever   *)
(*                the same array is sorted again                           *)
(* Once an error is thrown the locals are gone: peaks and properties keep  *)
(* the values they had when the block began and carry no meaning.          *)
(***************************************************************************)
VARIABLES x, options, peaks, properties, pc, error, warnings, calls, sortOf

vars == <<x, options, peaks, properties, pc, error, warnings, calls, sortOf>>

\* The signals drawn: every sequence of at most MaxLen samples.
Signals ==
    UNION {{[i \in 1..n |-> Num(f[i])] : f \in [1..n -> Samples]} : n \in 0..MaxLen}

\* The values drawn for options.height: absent, a scalar, [lower, upper] pairs.
HeightOptions ==
    {Undefined, Num(2), Array(<<Num(1), Num(1)>>), Array(<<Null, Num(1)>>),
     Array(<<Num(1), Null>>)}

\* The values drawn for options.distance: absent, null, 1/2, 3/2, 5/2.
DistanceOptions == {Undefined, Null, Number(1, 2), Number(3, 2), Number(5, 2)}

\* The values drawn for options.prominence.
ProminenceOptions == {Undefined, Num(2)}

\* The values drawn for options.width.
WidthOptions == {Undefined, Num(0), Num(1)}

\* obj[key] = value
Put(obj, key, value) ==
    [q \in DOMAIN obj \cup {key} |-> IF q = key THEN value ELSE obj[q]]

\* obj[key], undefined when obj has no such key
Get(obj, key) == IF key \in DOMAIN obj THEN obj[key] ELSE Undefined

\* for (const [key, value] of Object.entries(properties))
\*     properties[key] = value.filter((_, i) => keep[i])
\* value.filter throws a TypeError when some value is undefined.
filterEntriesThrows(obj) == \E q \in DOMAIN obj : obj[q].k # "array"

filterEntries(obj, keep) == [q \in DOMAIN obj |-> Array(Filter(obj[q].a, keep))]

Throw(message) ==
    /\ pc' = "threw"
    /\ error' = message
    /\ UNCHANGED <<calls, sortOf, x, options, peaks, properties, warnings>>

\* The block is skipped: its option is absent.
Skip(next) ==
    /\ pc' = next
    /\ UNCHANGED <<calls, sortOf, x, options, peaks, properties, error, warnings>>

Init ==
    /\ x \in Signals
    /\ options \in [height : HeightOptions, distance : DistanceOptions,
                    prominence : ProminenceOptions, width : WidthOptions]
    /\ peaks = <<>>
    /\ properties = <<>>
    /\ pc = "validate"
    /\ error = ""
    /\ warnings = {}
    /\ calls = <<>>
    /\ sortOf = <<>>

\* A plausible slip: the check of distance is left out.
ValidateNothing ==
    /\ pc = "validate"
    /\ Skip("scan")

\* if (isSome(distance) && distance < 1) throw
Validate ==
    /\ pc = "validate"
    /\ IF isSome(options.distance) /\ Lt(options.distance, Num(1))
       THEN Throw("distance must be greater or equal to 1")
       ELSE Skip("scan")

\* A plausible slip: the arrays the scanner fills live outside the function,
\* so that each call appends to what the calls before it left.
ScanAccumulating ==
    /\ pc = "scan"
    /\ peaks' = peaks \o localMaxima1D(x).midpoints
    /\ properties' = <<>>
    /\ pc' = "height"
    /\ UNCHANGED <<calls, sortOf, x, options, error, warnings>>

\* const { midpoints, ... } = localMaxima1D(x); let peaks = midpoints;
\* const properties = {}
Scan ==
    /\ pc = "scan"
    /\ peaks' = localMaxima1D(x).midpoints
    /\ properties' = <<>>
    /\ pc' = "height"
    /\ UNCHANGED <<calls, sortOf, x, options, error, warnings>>

\* A plausible slip: the bounds projected onto the peaks are written back
\* into the array passed as options.height.
HeightStepProjectingInPlace ==
    /\ pc = "height"
    /\ IF isSome(options.height)
       THEN LET peakHeights == MapIndex(x, peaks)
                bounds == unpackConditionArgs(options.height, x, peaks)
            IN  IF bounds.threw # ""
                THEN Throw(bounds.threw)
                ELSE /\ peaks' = Filter(peaks,
                                   selectByProperty(peakHeights, bounds.imin, bounds.imax))
                     /\ properties' = Put(properties, "peakHeights", Array(peakHeights))
                     /\ options' = IF options.height.k = "array"
                                   THEN [options EXCEPT
                                            !.height = Array(<<bounds.imin, bounds.imax>>)]
                                   ELSE options
                     /\ pc' = "distance"
                     /\ UNCHANGED <<calls, sortOf, x, error, warnings>>
       ELSE Skip("distance")

\* A plausible slip: the height mask is not applied to peaks before the
\* distance block runs.
HeightStepKeepingAll ==
    /\ pc = "height"
    /\ IF isSome(options.height)
       THEN /\ properties' = Put(properties, "peakHeights", Array(MapIndex(x, peaks)))
            /\ pc' = "distance"
            /\ UNCHANGED <<calls, sortOf, x, options, peaks, error, warnings>>
       ELSE Skip("distance")

\* if (isSome(height)) { ... }
HeightStep ==
    /\ pc = "height"
    /\ IF isSome(options.height)
       THEN LET peakHeights == MapIndex(x, peaks)
                bounds == unpackConditionArgs(options.height, x, peaks)
            IN  IF bounds.threw # ""
                THEN Throw(bounds.threw)
                ELSE /\ peaks' = Filter(peaks,
                                   selectByProperty(peakHeights, bounds.imin, bounds.imax))
                     /\ properties' = Put(properties, "peakHeights", Array(peakHeights))
                     /\ pc' = "distance"
                     /\ UNCHANGED <<calls, sortOf, x, options, error, warnings>>
       ELSE Skip("distance")

\* The orders the sort can give for the priorities: the one it gave when it
\* sorted the same array before, any of sortedPositions otherwise.
sortOutcomes(priority) ==
    IF priority \in DOMAIN sortOf THEN {sortOf[priority]} ELSE sortedPositions(priority)

\* The block past the sort, given the priorities and the order they sorted to.
filterByDistance(priority, priorityToPosition, keep) ==
    /\ peaks' = Filter(peaks, keep)
    /\ properties' = Put(properties, "peakHeights",
                         IF isSome(Get(properties, "peakHeights"))
                         THEN Array(Filter(properties["peakHeights"].a, keep))
                         ELSE Undefined)
    /\ sortOf' = Put(sortOf, priority, priorityToPosition)
    /\ pc' = "prominences"
    /\ UNCHANGED <<calls, x, options, error, warnings>>

\* if (isSome(distance)) { ... }: properties.peakHeights?.filter(..) is
\* undefined when there is no peakHeights, and the assignment creates the key.
DistanceStep ==
    /\ pc = "distance"
    /\ IF isSome(options.distance)
       THEN \E priorityToPosition \in sortOutcomes(MapIndex(x, peaks)) :
                filterByDistance(MapIndex(x, peaks), priorityToPosition,
                    selectByPeakDistanceSorted(peaks, priorityToPosition, options.distance))
       ELSE Skip("prominences")

\* The three assignments of the block, given the result of peakProminences.
storeProminences(res) ==
    IF res.threw
    THEN Throw("peak is not a valid index for x")
    ELSE /\ properties' = Put(Put(Put(properties,
                              "prominences", Array(res.prominences)),
                              "leftBases", Array(res.leftBases)),
                              "rightBases", Array(res.rightBases))
         /\ warnings' = IF res.showWarning
                        THEN warnings \cup {"Some peaks have a prominence of 0"}
                        ELSE warnings
         /\ pc' = "prominence"
         /\ UNCHANGED <<calls, sortOf, x, options, peaks, error>>

\* if (isSome(prominence) || isSome(width)) { ... }
ProminencesStep ==
    /\ pc = "prominences"
    /\ IF isSome(options.prominence) \/ isSome(options.width)
       THEN storeProminences(peakProminences(x, peaks, Num(-1)))
       ELSE Skip("prominence")

\* if (isSome(prominence)) { ... }
ProminenceStep ==
    /\ pc = "prominence"
    /\ IF isSome(options.prominence)
       THEN LET bounds == unpackConditionArgs(options.prominence, x, peaks)
            IN  IF bounds.threw # ""
                THEN Throw(bounds.threw)
                ELSE IF filterEntriesThrows(properties)
                THEN Throw("TypeError")
                ELSE \E keep \in {selectByProperty(properties["prominences"].a,
                                                   bounds.imin, bounds.imax)} :
                        /\ peaks' = Filter(peaks, keep)
                        /\ properties' = filterEntries(properties, keep)
                        /\ pc' = "width"
                        /\ UNCHANGED <<calls, sortOf, x, options, error, warnings>>
       ELSE Skip("width")

\* The rest of the block, given the result of peakWidths and properties with
\* its four arrays assigned.  The warning of peakWidths is written before
\* anything that follows it can throw.
filterByWidth(res, withWidths, bounds) ==
    /\ warnings' = IF res.showWarning
                   THEN warnings \cup {"Some peaks have a width of 0"}
                   ELSE warnings
    /\ IF bounds.threw # "" \/ filterEntriesThrows(withWidths)
       THEN /\ pc' = "threw"
            /\ error' = IF bounds.threw # "" THEN bounds.threw ELSE "TypeError"
            /\ UNCHANGED <<calls, sortOf, x, options, peaks, properties>>
       ELSE \E keep \in {selectByProperty(res.widths, bounds.imin, bounds.imax)} :
                /\ peaks' = Filter(peaks, keep)
                /\ properties' = filterEntries(withWidths, keep)
                /\ pc' = "return"
                /\ UNCHANGED <<calls, sortOf, x, options, error>>

\* The block past the call of peakWidths.
storeWidths(res) ==
    IF res.threw # ""
    THEN Throw(res.threw)
    ELSE filterByWidth(res,
             Put(Put(Put(Put(properties,
                 "widths", Array(res.widths)),
                 "widthHeights", Array(res.widthHeights)),
                 "leftIps", Array(res.leftIps)),
                 "rightIps", Array(res.rightIps)),
             unpackConditionArgs(options.width, x, peaks))

\* if (isSome(width)) { ... }: properties.prominences, leftBases and
\* rightBases are arrays here, assigned by the block before the last.
WidthStep ==
    /\ pc = "width"
    /\ IF isSome(options.width)
       THEN storeWidths(peakWidths(x, peaks, Num(0), properties["prominences"].a,
                                   properties["leftBases"].a, properties["rightBases"].a))
       ELSE Skip("return")

\* return { peaks, properties }
Return ==
    /\ pc = "return"
    /\ Skip("returned")

Next ==
    \/ Validate
    \/ Scan
    \/ HeightStep
    \/ DistanceStep
    \/ ProminencesStep
    \/ ProminenceStep
    \/ WidthStep
    \/ Return

Spec == Init /\ [][Next]_vars

(***************************************************************************)
(* findPeaks called again and again with the same arguments, as the        *)
(* application does for every batch of samples, over signals and options   *)
(* that include per-sample bound arrays.                                   *)
(***************************************************************************)
\* The calls made in a row.
MaxCalls == 2

\* The signal of the scenario [0, 1, 0, 2, 0, 3, 0], and a signal whose peaks
\* are a plateau of two samples (its midpoint 1.5 has no sample, hence an
\* undefined priority) and two peaks of different heights: the comparator of
\* the sort is inconsistent on it.
ThreePeaks == [i \in 1..7 |-> Num(<<0, 1, 0, 2, 0, 3, 0>>[i])]

PlateauAndPeaks == [i \in 1..8 |-> Num(<<0, 1, 1, 0, 2, 0, 1, 0>>[i])]

\* A per-sample bound: an array of n ones.
Ones(n) == Array([i \in 1..n |-> Num(1)])

\* The values drawn for a bound option over a signal of n samples: absent, a
\* scalar, a pair whose lower element is an array as long as the signal or one
\* longer, and a flat array one longer than the signal.
BoundShapes(n) ==
    {Undefined, Num(1), Array(<<Ones(n), Null>>), Array(<<Ones(n + 1), Null>>), Ones(n + 1)}

InitCalls ==
    /\ x \in Signals \cup {ThreePeaks, PlateauAndPeaks}
    /\ options \in [height : BoundShapes(Len(x)),
                    distance : {Undefined, Number(5, 2)},
                    prominence : {Undefined, Array(<<Null, Ones(Len(x) + 1)>>)},
                    width : {Undefined, Num(0), Array(<<Ones(Len(x) + 1), Null>>)}]
    /\ peaks = <<>>
    /\ properties = <<>>
    /\ pc = "validate"
    /\ error = ""
    /\ warnings = {}
    /\ calls = <<>>
    /\ sortOf = <<>>

\* What the caller gets from the call that has finished: the result or the
\* error.
Outcome ==
    [threw |-> pc = "threw",
     error |-> error,
     peaks |-> IF pc = "returned" THEN peaks ELSE <<>>,
     properties |-> IF pc = "returned" THEN properties ELSE <<>>]

\* The caller notes the outcome and calls findPeaks with the same arguments
\* once more.  The locals of the finished call are left as they were: the new
\* call assigns its own.
CallAgain ==
    /\ pc \in {"returned", "threw"}
    /\ Len(calls) + 1 < MaxCalls
    /\ calls' = Append(calls, Outcome)
    /\ pc' = "validate"
    /\ error' = ""
    /\ UNCHANGED <<sortOf, x, options, peaks, properties, warnings>>

NextCalls ==
    \/ Next
    \/ CallAgain

SpecCalls == InitCalls /\ [][NextCalls]_vars

(***************************************************************************)
(* The helpers called on their own: localMaxima1D on a signal,             *)
(* peakProminences on a signal, a list of peaks and a window length, and   *)
(* peakWidths on what peakProminences returned and a relative height.      *)
(* Here options holds the two numbers [wlen, relHeight], peaks the list    *)
(* passed in, properties the arrays returned, and pc the helper that has   *)
(* returned ("call" before any has).  Calls of findPeaks with the options  *)
(* the application passes for prominence and width run beside them.        *)
(***************************************************************************)
\* The indices 0 .. n-1.
AllIndices(n) == [i \in 1..n |-> Num(i - 1)]

\* The lists of peaks drawn for a signal: one peak that is an index, -1, the
\* length or 1.5; the scanner's peaks; every index; the scanner's peaks
\* followed by the length.
PeakLists(signal) ==
    {<<Num(i)>> : i \in -1..Len(signal)}
    \cup {<<Number(3, 2)>>, localMaxima1D(signal).midpoints, AllIndices(Len(signal)),
          Append(localMaxima1D(signal).midpoints, Num(Len(signal)))}

\* The window lengths drawn: none, and one that narrows the search.
WindowLengths == {Num(-1), Num(2)}

\* The relative heights drawn.
RelativeHeights == {Num(-1), Num(0), Number(1, 2), Num(1), Num(2)}

InitUnits ==
    /\ x \in Signals \cup {ThreePeaks, PlateauAndPeaks}
    /\ \/ /\ pc = "call"
          /\ options \in [wlen : WindowLengths, relHeight : RelativeHeights]
          /\ peaks \in PeakLists(x)
       \/ /\ pc = "validate"
          /\ options \in [height : {Undefined}, distance : {Undefined},
                          prominence : {Undefined, Num(0)}, width : {Undefined, Num(0)}]
          /\ peaks = <<>>
    /\ properties = <<>>
    /\ error = ""
    /\ warnings = {}
    /\ calls = <<>>
    /\ sortOf = <<>>

\* const { midpoints, leftEdges, rightEdges } = localMaxima1D(x)
CallLocalMaxima1D ==
    /\ pc = "call"
    /\ properties' = [midpoints |-> Array(localMaxima1D(x).midpoints),
                      leftEdges |-> Array(localMaxima1D(x).leftEdges),
                      rightEdges |-> Array(localMaxima1D(x).rightEdges)]
    /\ pc' = "localMaxima1D"
    /\ UNCHANGED <<calls, sortOf, x, options, peaks, error, warnings>>

\* The end of peakProminences: the throw, or the warning and the return.
returnProminences(res) ==
    IF res.threw
    THEN Throw("peak is not a valid index for x")
    ELSE /\ properties' = [prominences |-> Array(res.prominences),
                           leftBases |-> Array(res.leftBases),
                           rightBases |-> Array(res.rightBases)]
         /\ warnings' = IF res.showWarning
                        THEN warnings \cup {"Some peaks have a prominence of 0"}
                        ELSE warnings
         /\ pc' = "peakProminences"
         /\ UNCHANGED <<calls, sortOf, x, options, peaks, error>>

\* peakProminences(x, peaks, wlen)
CallPeakProminences ==
    /\ pc = "call"
    /\ returnProminences(peakProminences(x, peaks, options.wlen))

\* The end of peakWidths: the throw, or the warning and the return.
returnWidths(res) ==
    IF res.threw # ""
    THEN Throw(res.threw)
    ELSE /\ properties' = Put(Put(Put(Put(properties,
                              "widths", Array(res.widths)),
                              "widthHeights", Array(res.widthHeights)),
                              "leftIps", Array(res.leftIps)),
                              "rightIps", Array(res.rightIps))
         /\ warnings' = IF res.showWarning
                        THEN warnings \cup {"Some peaks have a width of 0"}
                        ELSE warnings
         /\ pc' = "peakWidths"
         /\ UNCHANGED <<calls, sortOf, x, options, peaks, error>>

\* peakWidths(x, peaks, relHeight, prominences, leftBases, rightBases) on the
\* arrays peakProminences returned.
CallPeakWidths ==
    /\ pc = "peakProminences"
    /\ returnWidths(peakWidths(x, peaks, options.relHeight, properties["prominences"].a,
                               properties["leftBases"].a, properties["rightBases"].a))

NextUnits ==
    \/ Next
    \/ CallLocalMaxima1D
    \/ CallPeakProminences
    \/ CallPeakWidths

SpecUnits == InitUnits /\ [][NextUnits]_vars

(***************************************************************************)
(* Properties of findPeaks                                                 *)
(***************************************************************************)
\* findPeaks has returned { peaks, properties }.
Returned == pc = "returned"

\* The peaks the scanner produces for the signal.
Scanned == localMaxima1D(x).midpoints

\* The arrays among the values of properties.
PropertyArrays == {q \in DOMAIN properties : properties[q].k = "array"}

\* The elements of a sequence.
Range(s) == {s[i] : i \in 1..Len(s)}

\* |a - b| for two numbers.
Distance(a, b) == IF Lt(a, b) THEN Sub(b, a) ELSE Sub(a, b)

\* The least integer that is not below the distance option: ceil(d), spelt
\* out over the integers of the model.
CeilOfDistance ==
    CHOOSE c \in 0..(MaxLen + 3) :
        Le(options.distance, Num(c)) /\ Lt(Num(c - 1), options.distance)

\* C1: after findPeaks returns, every array of properties is as long as peaks.
C1_PropertiesAligned ==
    Returned => \A q \in PropertyArrays : Len(properties[q].a) = Len(peaks)

\* C2: when height is supplied, peakHeights[k] is the sample at peaks[k] for
\* every position k of the returned peaks.
C2_PeakHeightsAreSamples ==
    (Returned /\ isSome(options.height)) =>
        /\ "peakHeights" \in PropertyArrays
        /\ \A k \in 1..Len(peaks) :
              /\ k <= Len(properties["peakHeights"].a)
              /\ properties["peakHeights"].a[k] = ArrayGet(x, peaks[k])

\* C3: when distance is supplied, any two distinct returned peaks are at
\* least ceil(distance) samples apart.
C3_DistanceRespected ==
    (Returned /\ isSome(options.distance)) =>
        \A a, b \in 1..Len(peaks) :
            a # b => Le(Num(CeilOfDistance), Distance(peaks[a], peaks[b]))

\* Two returned peaks under a distance whose ceiling is above it.
C3_Witness ==
    /\ Returned
    /\ options.distance = Number(3, 2)
    /\ Len(peaks) = 2
    /\ Distance(peaks[1], peaks[2]) = Num(2)

\* Candidate j (1-based) of the distance step is strictly higher than every
\* other candidate within fewer than ceil(distance) samples of it.
Dominant(j) ==
    \A k \in 1..Len(peaks) :
        (k # j /\ Lt(Distance(peaks[j], peaks[k]), Num(CeilOfDistance)))
            => Lt(ArrayGet(x, peaks[k]), ArrayGet(x, peaks[j]))

\* C4: the distance step never removes a candidate that is strictly higher
\* than every other candidate within fewer than ceil(distance) samples.
C4_HigherPeakSurvives ==
    [][(pc = "distance" /\ isSome(options.distance) /\ pc' = "prominences") =>
          \A j \in 1..Len(peaks) : Dominant(j) => peaks[j] \in Range(peaks')]_vars

\* C5: every peak lies strictly inside (0, n - 1), and a signal of fewer than
\* three samples has no peak.
C5_PeaksInsideSignal ==
    /\ \A k \in 1..Len(peaks) :
          Lt(Num(0), peaks[k]) /\ Lt(peaks[k], Num(Len(x) - 1))
    /\ Len(x) <= 2 => peaks = <<>>

\* A returned peak next to both ends of its signal.
C5_Witness ==
    /\ Returned
    /\ Len(x) = 3
    /\ peaks = <<Num(1)>>

\* C6: every returned peak is an integer index.
C6_PeaksAreIntegers == Returned => \A k \in 1..Len(peaks) : IsInteger(peaks[k])

\* C7: peaks is strictly increasing after the scan and after every filtering
\* step.
C7_StrictlyIncreasing ==
    \A a, b \in 1..Len(peaks) : a < b => Lt(peaks[a], peaks[b])

\* Two peaks returned after all four filtering steps ran.
C7_Witness ==
    /\ Returned
    /\ isSome(options.height) /\ isSome(options.distance)
    /\ isSome(options.prominence) /\ isSome(options.width)
    /\ Len(peaks) = 2

\* The lower and upper bound the claim reads in options.height: the elements
\* of a pair, or a scalar as the lower bound alone.
HeightLower == IF options.height.k = "array" THEN options.height.a[1] ELSE options.height

HeightUpper == IF options.height.k = "array" THEN options.height.a[2] ELSE Null

\* v is within the bounds of height that are numbers.
WithinHeight(v) ==
    /\ HeightLower.k = "number" => Le(HeightLower, v)
    /\ HeightUpper.k = "number" => Le(v, HeightUpper)

\* C8: every returned peak's sample is within the bounds of height, and the
\* height step removes no peak whose sample is within them (a side that is
\* null, or missing after a scalar, does not constrain).
C8_HeightWithinBounds ==
    /\ (Returned /\ isSome(options.height)) =>
          \A k \in 1..Len(peaks) : WithinHeight(ArrayGet(x, peaks[k]))
    /\ (pc = "distance" /\ isSome(options.height)) =>
          \A s \in Range(Scanned) : WithinHeight(ArrayGet(x, s)) => s \in Range(peaks)

\* A peak returned under height = [1, 1] while a higher one was removed.
C8_Witness ==
    /\ Returned
    /\ options.height = Array(<<Num(1), Num(1)>>)
    /\ Len(peaks) = 1
    /\ Len(Scanned) = 2

\* The keys the options imply.
ImpliedKeys ==
    (IF isSome(options.height) THEN {"peakHeights"} ELSE {})
    \cup (IF isSome(options.prominence) \/ isSome(options.width)
          THEN {"prominences", "leftBases", "rightBases"} ELSE {})
    \cup (IF isSome(options.width)
          THEN {"widths", "widthHeights", "leftIps", "rightIps"} ELSE {})

\* C9: the returned properties has exactly the keys the options imply.
C9_ExactKeys == Returned => DOMAIN properties = ImpliedKeys

\* A distance is supplied and is below 1.
DistanceTooSmall == isSome(options.distance) /\ Lt(options.distance, Num(1))

\* C10: with distance below 1 findPeaks throws before it scans or reads
\* another option and returns nothing; with distance absent no error is
\* raised for it and the distance block changes nothing.
C10_DistanceValidatedFirst ==
    /\ [](DistanceTooSmall =>
            /\ pc \in {"validate", "threw"}
            /\ pc = "threw" => error = "distance must be greater or equal to 1"
            /\ peaks = <<>> /\ properties = <<>>)
    /\ [](~isSome(options.distance) => error # "distance must be greater or equal to 1")
    /\ [][(pc = "validate" /\ DistanceTooSmall) => pc' = "threw"]_vars
    /\ [][(pc = "distance" /\ ~isSome(options.distance)) =>
             (peaks' = peaks /\ properties' = properties /\ pc' = "prominences")]_vars

\* The error raised for a signal that has peaks and options that filter.
C10_Witness ==
    /\ pc = "threw"
    /\ error = "distance must be greater or equal to 1"
    /\ Len(Scanned) = 2
    /\ isSome(options.height)

\* v is an array that is not as long as the signal.
WrongLength(v) == v.k = "array" /\ Len(v.a) # Len(x)

\* The option value supplies a bound as an array that is not as long as the
\* signal: as the lower or the upper element of a pair, or as the option value
\* itself (an array that is no pair).
MismatchedBound(o) ==
    /\ o.k = "array"
    /\ \/ WrongLength(ArrayGet(o.a, Num(0)))
       \/ WrongLength(ArrayGet(o.a, Num(1)))
       \/ Len(o.a) # 2 /\ WrongLength(o)

\* C11: findPeaks returns no result when a bound of height, prominence or
\* width is supplied as an array that is not as long as the signal.
C11_MismatchedBoundRaises ==
    Returned => ~(\/ MismatchedBound(options.height)
                  \/ MismatchedBound(options.prominence)
                  \/ MismatchedBound(options.width))

\* The part of C11 the code keeps: a mismatched array that is the lower or
\* upper element of a pair makes the call fail.
C11_MismatchedPairElementRaises ==
    Returned =>
        \A o \in {options.height, options.prominence, options.width} :
            o.k = "array" =>
                /\ ~WrongLength(ArrayGet(o.a, Num(0)))
                /\ ~WrongLength(ArrayGet(o.a, Num(1)))

Sample(i) == x[i + 1].n

IntMax(a, b) == IF a < b THEN b ELSE a

IntMin(a, b) == IF b < a THEN b ELSE a

\* p is an index of the signal.
ValidIndex(p) == IsInteger(p) /\ 0 <= p.n /\ p.n <= Len(x) - 1

\* The edges of the window peakProminences searches around index p: the
\* signal's, or p -+ wlen clamped to them when wlen is at least 2.
WindowLeft(p) ==
    IF options.wlen.n >= 2 THEN IntMax(0, p - options.wlen.n) ELSE 0

WindowRight(p) ==
    IF options.wlen.n >= 2 THEN IntMin(Len(x) - 1, p + options.wlen.n) ELSE Len(x) - 1

\* Index p is an isolated maximum inside its window, and the samples descend
\* monotonically from it to both edges of the window.
BetweenDescendingFlanks(p) ==
    /\ WindowLeft(p) < p /\ p < WindowRight(p)
    /\ Sample(p - 1) < Sample(p) /\ Sample(p + 1) < Sample(p)
    /\ \A i \in WindowLeft(p)..(p - 1) : Sample(i) <= Sample(i + 1)
    /\ \A i \in p..(WindowRight(p) - 1) : Sample(i + 1) <= Sample(i)

\* Position k of the list passed to peakProminences holds such a peak.
FlankedPeak(k) == ValidIndex(peaks[k]) /\ BetweenDescendingFlanks(peaks[k].n)

\* C12 as the code has it: the prominence of an isolated maximum between two
\* flanks descending to the edges of the window is signal[peak] minus the
\* HIGHER of the two edge samples.
C12_ProminenceAboveHigherEdge ==
    pc = "peakProminences" =>
        \A k \in 1..Len(peaks) : FlankedPeak(k) =>
            properties["prominences"].a[k] =
                Num(Sample(peaks[k].n) - IntMax(Sample(WindowLeft(peaks[k].n)),
                                                Sample(WindowRight(peaks[k].n))))

\* C12 as stated: the prominence of such a peak is signal[peak] minus the
\* lower of the two edge samples.
C12_ProminenceAboveLowerEdge ==
    pc = "peakProminences" =>
        \A k \in 1..Len(peaks) : FlankedPeak(k) =>
            properties["prominences"].a[k] =
                Num(Sample(peaks[k].n) - IntMin(Sample(WindowLeft(peaks[k].n)),
                                                Sample(WindowRight(peaks[k].n))))

\* peakProminences has returned for such a peak in a window narrower than the
\* signal whose edge samples differ.
C12_Witness ==
    /\ pc = "peakProminences"
    /\ \E k \in 1..Len(peaks) :
          /\ FlankedPeak(k)
          /\ 0 < WindowLeft(peaks[k].n)
          /\ Sample(WindowLeft(peaks[k].n)) # Sample(WindowRight(peaks[k].n))

\* The entries of the arrays peakProminences and peakWidths returned for
\* position k of the list of peaks.
LeftBase(k) == properties["leftBases"].a[k]

RightBase(k) == properties["rightBases"].a[k]

LeftIp(k) == properties["leftIps"].a[k]

RightIp(k) == properties["rightIps"].a[k]

\* peakWidths has returned widths measured at relative height 1.
WidthsAtFullProminence == pc = "peakWidths" /\ options.relHeight = Num(1)

\* C13 as the code has it: at relative height 1 the evaluation height is the
\* HIGHER of the two base samples.  The interpolated positions lie between the
\* bases and the peak; the position on the side of the higher base is that
\* base, the one on the side of a strictly lower base lies strictly inside it;
\* so the width is rightBase - leftBase exactly when the base samples are equal.
C13_WidthReachesHigherBase ==
    WidthsAtFullProminence =>
        \A k \in 1..Len(peaks) : ValidIndex(peaks[k]) =>
            /\ Le(LeftBase(k), LeftIp(k)) /\ Le(LeftIp(k), peaks[k])
            /\ Le(peaks[k], RightIp(k)) /\ Le(RightIp(k), RightBase(k))
            /\ Sample(RightBase(k).n) <= Sample(LeftBase(k).n) => LeftIp(k) = LeftBase(k)
            /\ Sample(LeftBase(k).n) <= Sample(RightBase(k).n) => RightIp(k) = RightBase(k)
            /\ Sample(LeftBase(k).n) < Sample(RightBase(k).n) => Lt(LeftBase(k), LeftIp(k))
            /\ Sample(RightBase(k).n) < Sample(LeftBase(k).n) => Lt(RightIp(k), RightBase(k))
            /\ properties["widths"].a[k] = Sub(RightIp(k), LeftIp(k))

\* C13 as stated: at relative height 1 leftIp is leftBase, rightIp is
\* rightBase and the width is rightBase - leftBase.
C13_WidthSpansBases ==
    WidthsAtFullProminence =>
        \A k \in 1..Len(peaks) : ValidIndex(peaks[k]) =>
            /\ LeftIp(k) = LeftBase(k)
            /\ RightIp(k) = RightBase(k)
            /\ properties["widths"].a[k] = Sub(RightBase(k), LeftBase(k))

\* The width of the peak of [0, 2, 1] at relative height 1: from 0.5, where
\* the left flank crosses the right base's height, to the right base.
C13_Witness ==
    /\ WidthsAtFullProminence
    /\ x = <<Num(0), Num(2), Num(1)>>
    /\ peaks = <<Num(1)>>
    /\ LeftBase(1) = Num(0) /\ RightBase(1) = Num(2)
    /\ LeftIp(1) = Number(1, 2) /\ RightIp(1) = Num(2)

\* The state is one of a helper called on its own (not of findPeaks).
UnitCall == "wlen" \in DOMAIN options

\* Some entry of the array is exactly 0.
ZeroIn(a) == \E k \in 1..Len(a) : a[k] = Num(0)

\* Every one of the named arrays of properties has an entry for every peak.
Complete(keys) == \A q \in keys : Len(properties[q].a) = Len(peaks)

\* C15: a prominence or a width of exactly 0 aborts nothing.  peakProminences
\* and peakWidths return arrays with an entry for every peak, and the warning
\* is written exactly when some entry is 0; they throw only for a peak outside
\* the signal or a negative relative height; findPeaks with scalar bounds of 0
\* on prominence and width always returns, having warned of the zero widths.
C15_ZeroIsOnlyADiagnostic ==
    /\ pc = "peakProminences" =>
          /\ Complete({"prominences", "leftBases", "rightBases"})
          /\ "Some peaks have a prominence of 0" \in warnings
                <=> ZeroIn(properties["prominences"].a)
    /\ pc = "peakWidths" =>
          /\ Complete({"widths", "widthHeights", "leftIps", "rightIps"})
          /\ "Some peaks have a width of 0" \in warnings
                <=> ZeroIn(properties["widths"].a)
    /\ (UnitCall /\ pc = "threw") =>
          \/ /\ error = "peak is not a valid index for x"
             /\ \E k \in 1..Len(peaks) :
                   ~(Le(Num(0), peaks[k]) /\ Le(peaks[k], Num(Len(x) - 1)))
          \/ /\ error = "relHeight must be greater or equal to 0"
             /\ Lt(options.relHeight, Num(0))
    /\ ~UnitCall =>
          /\ pc # "threw"
          /\ (Returned /\ isSome(options.width)) =>
                /\ Complete({"prominences", "leftBases", "rightBases",
                             "widths", "widthHeights", "leftIps", "rightIps"})
                /\ peaks # <<>> =>
                      (ZeroIn(properties["widths"].a)
                       /\ "Some peaks have a width of 0" \in warnings)

\* peakWidths has returned for several peaks, some of prominence 0 and some
\* not, all of width 0, after both warnings.
C15_Witness ==
    /\ pc = "peakWidths"
    /\ Len(peaks) >= 2
    /\ ZeroIn(properties["prominences"].a)
    /\ \E k \in 1..Len(peaks) : Lt(Num(0), properties["prominences"].a[k])
    /\ ZeroIn(properties["widths"].a)
    /\ warnings = {"Some peaks have a prominence of 0", "Some peaks have a width of 0"}

\* The plateaus of the signal that are local maxima, as pairs <<leftEdge,
\* rightEdge>>: runs of equal samples strictly inside the signal whose
\* neighbours on both sides are strictly lower.
Plateaus ==
    {e \in (1..(Len(x) - 2)) \X (1..(Len(x) - 2)) :
        /\ e[1] <= e[2]
        /\ \A i \in e[1]..e[2] : Sample(i) = Sample(e[1])
        /\ Sample(e[1] - 1) < Sample(e[1])
        /\ Sample(e[2] + 1) < Sample(e[2])}

\* The arrays localMaxima1D returned.
Midpoints == properties["midpoints"].a

LeftEdges == properties["leftEdges"].a

RightEdges == properties["rightEdges"].a

\* The plateaus localMaxima1D reported, as pairs of integers.
Reported ==
    {<<LeftEdges[k].n, RightEdges[k].n>> :
        k \in 1..IntMin(Len(LeftEdges), Len(RightEdges))}

\* C16: localMaxima1D reports exactly the plateaus that are local maxima
\* (none at the boundary, none for a monotonic or flat-to-the-boundary run,
\* none skipped after another), as integer edges; [0, 1, 0, 2, 0, 3, 0] gives
\* the peaks [1, 3, 5].
C16_ScannerSoundAndComplete ==
    pc = "localMaxima1D" =>
        /\ \A k \in 1..Len(LeftEdges) : IsInteger(LeftEdges[k])
        /\ \A k \in 1..Len(RightEdges) : IsInteger(RightEdges[k])
        /\ Reported = Plateaus
        /\ x = ThreePeaks => Midpoints = <<Num(1), Num(3), Num(5)>>

\* localMaxima1D has returned for a plateau of two samples and two peaks of
\* one sample, each starting two samples after the one before it ended.
C16_Witness ==
    /\ pc = "localMaxima1D"
    /\ x = PlateauAndPeaks
    /\ Reported = {<<1, 2>>, <<4, 4>>, <<6, 6>>}

C18_InvalidPeakRaises ==
    pc = "peakProminences" => \A k \in 1..Len(peaks) : ValidIndex(peaks[k])

\* The part of C18 the code keeps: a peak below 0 or above n-1 makes
\* peakProminences throw.
C18_PeakOutsideSignalRaises ==
    pc = "peakProminences" =>
        \A k \in 1..Len(peaks) : Le(Num(0), peaks[k]) /\ Le(peaks[k], Num(Len(x) - 1))

\* The indices walked leftwards (rightwards) from p: those from which every
\* sample up to p is at most signal[p].
WalkedLeft(p) == {i \in 0..p : \A j \in i..p : Sample(j) <= Sample(p)}

WalkedRight(p) == {i \in p..(Len(x) - 1) : \A j \in p..i : Sample(j) <= Sample(p)}

\* The least sample among the indices.
LeastSample(indices) ==
    CHOOSE v \in {Sample(i) : i \in indices} : \A i \in indices : v <= Sample(i)

\* C19 for the peak p at position k, with the bases lb and rb returned for it.
BasesOfPeak(k, p, lb, rb) ==
    /\ lb <= p /\ p <= rb
    /\ \A i \in lb..rb : Sample(i) <= Sample(p)
    /\ lb \in WalkedLeft(p)
    /\ Sample(lb) = LeastSample(WalkedLeft(p))
    /\ \A i \in WalkedLeft(p) : Sample(i) = Sample(lb) => i <= lb
    /\ rb \in WalkedRight(p)
    /\ Sample(rb) = LeastSample(WalkedRight(p))
    /\ \A i \in WalkedRight(p) : Sample(i) = Sample(rb) => rb <= i
    /\ properties["prominences"].a[k] = Num(Sample(p) - IntMax(Sample(lb), Sample(rb)))
    /\ Sample(p) - IntMax(Sample(lb), Sample(rb)) >= 0

\* C19: over the whole signal, the bases peakProminences returns for a peak
\* that is an index enclose it, no sample between them is above the peak's,
\* each base is the lowest sample walked on its side before the first sample
\* above the peak's (the nearest to the peak among equals), and the
\* prominence is signal[p] - max(signal[leftBase], signal[rightBase]) >= 0.
C19_BasesAndProminence ==
    (pc = "peakProminences" /\ options.wlen = Num(-1)) =>
        \A k \in 1..Len(peaks) : ValidIndex(peaks[k]) =>
            /\ ValidIndex(LeftBase(k)) /\ ValidIndex(RightBase(k))
            /\ BasesOfPeak(k, peaks[k].n, LeftBase(k).n, RightBase(k).n)

\* The bases of the peak of [0, 0, 2, 1, 1]: the nearer of the two lowest
\* samples on each side.
C19_Witness ==
    /\ pc = "peakProminences"
    /\ options.wlen = Num(-1)
    /\ x = <<Num(0), Num(0), Num(2), Num(1), Num(1)>>
    /\ peaks = <<Num(2)>>
    /\ LeftBase(1) = Num(1) /\ RightBase(1) = Num(3)
    /\ properties["prominences"].a = <<Num(1)>>

\* The blocks of findPeaks in the order of the code.
BlockOrder ==
    <<"validate", "scan", "height", "distance", "prominences", "prominence", "width",
      "return", "returned">>

\* Peak s of the scanner is within the bounds of height, and every other peak
\* of the scanner nearer to it than ceil(distance) is outside them.
OnlyRejectedNeighbours(s) ==
    /\ WithinHeight(ArrayGet(x, s))
    /\ \A t \in Range(Scanned) :
          (t # s /\ Lt(Distance(s, t), Num(CeilOfDistance)))
              => ~WithinHeight(ArrayGet(x, t))

\* C20: the blocks run in the order height, distance, prominence, width, each
\* keeping a part of the peaks the one before it left; the distance step works
\* on the peaks that passed the height bounds, so a peak within them whose
\* nearer neighbours were all rejected by them survives the distance step.
C20_HeightBeforeDistance ==
    /\ [][pc' # pc =>
            \/ pc' = "threw"
            \/ \E b \in 1..(Len(BlockOrder) - 1) :
                  pc = BlockOrder[b] /\ pc' = BlockOrder[b + 1]]_vars
    /\ [][pc # "scan" => Range(peaks') \subseteq Range(peaks)]_vars
    /\ []((pc = "prominences" /\ isSome(options.height) /\ isSome(options.distance)) =>
            \A s \in Range(Scanned) : OnlyRejectedNeighbours(s) => s \in Range(peaks))

\* The distance step has kept the peak of [0, 1, 0, 2, 0] at 3, the only one
\* of height at least 2, two samples from the rejected peak at 1.
C20_Witness ==
    /\ pc = "prominences"
    /\ x = <<Num(0), Num(1), Num(0), Num(2), Num(0)>>
    /\ options.height = Num(2)
    /\ options.distance = Number(5, 2)
    /\ peaks = <<Num(3)>>

\* C21: no step of findPeaks, returning or throwing, changes the signal or
\* the options (bound arrays included) it was called with.
C21_ArgumentsUntouched == [][x' = x /\ options' = options]_vars

\* A second call has returned peaks that passed a per-sample lower bound of
\* height.
C21_Witness ==
    /\ Returned
    /\ Len(calls) = 1
    /\ options.height = Array(<<Ones(Len(x)), Null>>)
    /\ peaks # <<>>

(***************************************************************************)
(* peakWidths called on prominence data of any shape: SpecWidths hands it  *)
(* arrays of equal and of unequal lengths and bases inside and outside the *)
(* signal, with the data kept where CallPeakWidths reads it.               *)
(***************************************************************************)

\* One peak p with bases l and r, or the same peak a second time after an
\* entry with the widest bases the signal allows.
WidthDataOfPeak(n, p, l, r) ==
    {[peaks |-> <<Num(p)>>, prominences |-> <<Num(1)>>,
      leftBases |-> <<Num(l)>>, rightBases |-> <<Num(r)>>],
     [peaks |-> <<Num(p), Num(p)>>, prominences |-> <<Num(1), Num(1)>>,
      leftBases |-> <<Num(0), Num(l)>>, rightBases |-> <<Num(n - 1), Num(r)>>]}

\* One peak with the widest bases, and one of the four arrays an entry
\* shorter or longer than the others.
WidthDataOfLengths(n, p) ==
    LET whole == [peaks |-> <<Num(p)>>, prominences |-> <<Num(1)>>,
                  leftBases |-> <<Num(0)>>, rightBases |-> <<Num(n - 1)>>]
    IN  UNION {{[whole EXCEPT ![key] = <<>>],
                [whole EXCEPT ![key] = Append(whole[key], whole[key][1])]} :
               key \in {"peaks", "prominences", "leftBases", "rightBases"}}

WidthData(n) ==
    UNION {WidthDataOfLengths(n, p)
           \cup UNION {WidthDataOfPeak(n, p, l, r) :
                       l \in {-1, 0, p, p + 1}, r \in {p - 1, p, n - 1, n}} :
           p \in 0..(n - 1)}

InitWidths ==
    /\ x \in Signals
    /\ options \in [wlen : {Num(-1)}, relHeight : {Num(-1), Num(1)}]
    /\ \E data \in WidthData(Len(x)) :
           /\ peaks = data.peaks
           /\ properties = [key \in {"prominences", "leftBases", "rightBases"} |->
                                Array(data[key])]
    /\ pc = "peakProminences"
    /\ error = ""
    /\ warnings = {}
    /\ calls = <<>>
    /\ sortOf = <<>>

SpecWidths == InitWidths /\ [][CallPeakWidths]_vars

\* The data handed to peakWidths: the arrays of bases and prominences.
DataLengths ==
    {Len(peaks), Len(properties["prominences"].a),
     Len(properties["leftBases"].a), Len(properties["rightBases"].a)}

\* The bases of the k-th peak satisfy 0 <= leftBase <= peak <= rightBase < n.
BasesAround(k) ==
    /\ 0 <= properties["leftBases"].a[k].n
    /\ properties["leftBases"].a[k].n <= peaks[k].n
    /\ peaks[k].n <= properties["rightBases"].a[k].n
    /\ properties["rightBases"].a[k].n < Len(x)

ValidWidthData ==
    /\ options.relHeight.n >= 0
    /\ Cardinality(DataLengths) = 1
    /\ \A k \in 1..Len(peaks) : BasesAround(k)

WidthErrors ==
    {"relHeight must be greater or equal to 0",
     "peaks, prominences, leftBases and rightBases must have the same length",
     "prominence data is invalid for peak"}

\* C22: called with a negative relative height, with arrays of unequal
\* lengths or with bases of some peak outside 0 <= leftBase <= peak <=
\* rightBase < n, peakWidths throws one of its errors and hands back no
\* widths.
C22_InvalidDataRaises ==
    (pc # "peakProminences" /\ ~ValidWidthData) =>
        /\ pc = "threw"
        /\ error \in WidthErrors
        /\ "widths" \notin DOMAIN properties

\* The first of two entries is sound, the bases of the second are not, and
\* the call has thrown.
C22_Witness ==
    /\ pc = "threw"
    /\ error = "prominence data is invalid for peak"
    /\ Len(peaks) = 2
    /\ BasesAround(1)
    /\ ~BasesAround(2)
    /\ options.relHeight = Num(1)

\* C23: with distance absent or at least 1 and every bound a scalar or a
\* pair of scalars and nulls, findPeaks never throws: the only error is the
\* one for a distance below 1.
C23_ScalarOptionsReturn == pc = "threw" => DistanceTooSmall

\* C23, the calls that do return: those without a distance, and those that
\* give a height with it.
C23_ReturnsWithHeightOrNoDistance ==
    (pc = "threw" /\ ~DistanceTooSmall) =>
        /\ error = "TypeError"
        /\ isSome(options.distance)
        /\ ~isSome(options.height)
        /\ isSome(options.prominence) \/ isSome(options.width)

\* The k-th returned peak has width 0, both interpolated positions on the
\* peak, and the evaluation height given.
ZeroWidthAt(k, height) ==
    /\ properties["widths"].a[k] = Num(0)
    /\ LeftIp(k) = peaks[k]
    /\ RightIp(k) = peaks[k]
    /\ properties["widthHeights"].a[k] = height

\* C24: when findPeaks returns with width supplied, every width is 0 with
\* leftIps[k] = rightIps[k] = peaks[k] and widthHeights[k] = signal[peaks[k]];
\* a lower bound of width above 0 leaves no peak.
C24_WidthsAreZero ==
    (Returned /\ isSome(options.width)) =>
        /\ \A k \in 1..Len(peaks) : ZeroWidthAt(k, ArrayGet(x, peaks[k]))
        /\ options.width = Num(1) => peaks = <<>>

\* C24 as the code has it: the evaluation height is the sample at a peak
\* that is an index of the signal and NaN at a midpoint that is not.
C24_WidthsAreZeroAtIndices ==
    (Returned /\ isSome(options.width)) =>
        /\ \A k \in 1..Len(peaks) :
               ZeroWidthAt(k, IF IsInteger(peaks[k]) THEN ArrayGet(x, peaks[k]) ELSE NaN)
        /\ options.width = Num(1) => peaks = <<>>

\* C24: a lower bound of width of 0 removes no peak.
C24_ZeroBoundKeepsAll ==
    [][(pc = "width" /\ options.width = Num(0) /\ pc' # "threw") => peaks' = peaks]_vars

\* peakProminences has returned for the scanner's peaks over the full signal.
ScannedOverFullSignal ==
    /\ UnitCall
    /\ pc = "peakProminences"
    /\ options.wlen = Num(-1)
    /\ peaks = Scanned

\* C25: over the full signal every scanner peak that is an integer index has
\* a prominence above 0, with a strictly lower sample at each base; the
\* zero-prominence warning is not raised for the scanner's peaks, and a lower
\* bound of prominence of 0 removes none of the integer ones from findPeaks.
C25_ScannedPeaksAreProminent ==
    /\ ScannedOverFullSignal =>
           /\ \A k \in 1..Len(peaks) :
                  IsInteger(peaks[k]) =>
                      /\ Lt(Num(0), properties["prominences"].a[k])
                      /\ Lt(ArrayGet(x, LeftBase(k)), ArrayGet(x, peaks[k]))
                      /\ Lt(ArrayGet(x, RightBase(k)), ArrayGet(x, peaks[k]))
           /\ "Some peaks have a prominence of 0" \notin warnings
    /\ ~UnitCall =>
           /\ "Some peaks have a prominence of 0" \notin warnings
           /\ (pc \in {"width", "return", "returned"} /\ options.prominence = Num(0)) =>
                  \A k \in 1..Len(Scanned) :
                      IsInteger(Scanned[k]) => Scanned[k] \in Range(peaks)

\* The prominences of the peaks 1.5, 4 and 6 of a signal with a plateau and
\* two single-sample peaks.
C25_Witness ==
    /\ ScannedOverFullSignal
    /\ x = PlateauAndPeaks
    /\ properties["prominences"].a = <<NaN, Num(2), Num(1)>>

(***************************************************************************)
(* findPeaks with a distance that no two scanner peaks fall short of, then *)
(* once more on the same signal with the distance left out.                *)
(***************************************************************************)

\* The distances drawn: 1 <= d and ceil(d) <= 2.
CloseDistances == {Num(1), Number(3, 2), Num(2)}

InitWithout ==
    /\ x \in Signals \cup {ThreePeaks, PlateauAndPeaks}
    /\ options \in [height : {Undefined, Num(1)}, distance : CloseDistances,
                    prominence : {Undefined, Num(0)}, width : {Undefined, Num(0)}]
    /\ peaks = <<>>
    /\ properties = <<>>
    /\ pc = "validate"
    /\ error = ""
    /\ warnings = {}
    /\ calls = <<>>
    /\ sortOf = <<>>

\* The caller notes the outcome and calls findPeaks on the same signal with
\* the same options but for distance, which it leaves out.
CallWithoutDistance ==
    /\ pc \in {"returned", "threw"}
    /\ calls = <<>>
    /\ calls' = <<Outcome>>
    /\ options' = [options EXCEPT !.distance = Undefined]
    /\ pc' = "validate"
    /\ error' = ""
    /\ UNCHANGED <<sortOf, x, peaks, properties, warnings>>

NextWithout ==
    \/ Next
    \/ CallWithoutDistance

SpecWithout == InitWithout /\ [][NextWithout]_vars

\* Both calls have finished: the one with the distance, then the one without.
BothCallsDone == pc \in {"returned", "threw"} /\ calls # <<>>

\* C26: with 1 <= d and ceil(d) <= 2, findPeaks returns the peaks it returns
\* without the distance option.
C26_SamePeaksWithoutDistance ==
    BothCallsDone => (~calls[1].threw /\ Returned /\ calls[1].peaks = peaks)

\* C26, the scanner: any two of its peaks are at least 2 samples apart.
C26_ScannedPeaksApart ==
    \A j, k \in 1..Len(Scanned) : j < k => Le(Num(2), Sub(Scanned[k], Scanned[j]))

\* C26, the filter: with 1 <= d and ceil(d) <= 2 the distance block removes
\* no peak.
C26_DistanceStepKeepsAll ==
    [][(pc = "distance" /\ isSome(options.distance)) => peaks' = peaks]_vars

\* C26 as the code has it: the call with the distance returns the same peaks
\* unless it throws, which it does when prominence or width comes without
\* height.
C26_SamePeaksUnlessThrown ==
    BothCallsDone =>
        /\ Returned
        /\ IF calls[1].threw
           THEN /\ calls[1].error = "TypeError"
                /\ ~isSome(options.height)
                /\ isSome(options.prominence) \/ isSome(options.width)
           ELSE calls[1].peaks = peaks

(***************************************************************************)
(* selectByPeakDistance one iteration of its for loop at a time, called as *)
(* findPeaks calls it: on increasing peaks with the samples at them as     *)
(* priority.  properties holds the locals of the call:                     *)
(*   keep                the mask, one flag for each peak                  *)
(*   priorityToPosition  the order the sort produced                       *)
(*   i                   the loop variable                                 *)
(* The peaks drawn are fewer than MaxLen.                                  *)
(***************************************************************************)

\* The indices in S in increasing order.
Ascending(S) ==
    CHOOSE s \in [1..Cardinality(S) -> {Num(i) : i \in S}] :
        \A a, b \in 1..Cardinality(S) : a < b => s[a].n < s[b].n

InitDistanceFilter ==
    /\ \/ /\ x \in Signals
          /\ peaks \in {Ascending(S) : S \in {T \in SUBSET (0..(Len(x) - 1)) :
                                                   Cardinality(T) < MaxLen}}
       \/ /\ x = PlateauAndPeaks
          /\ peaks = localMaxima1D(x).midpoints
    /\ options \in [distance : {Number(3, 2), Num(3)}]
    /\ properties = <<>>
    /\ pc = "selectByPeakDistance"
    /\ error = ""
    /\ warnings = {}
    /\ calls = <<>>
    /\ sortOf = <<>>

\* const keep = new Array(peaksSize).fill(true); const priorityToPosition =
\* ...sort...; let i = peaksSize - 2
SortPriorities ==
    /\ pc = "selectByPeakDistance"
    /\ \E priorityToPosition \in sortedPositions(MapIndex(x, peaks)) :
           properties' = [keep |-> [k \in 1..Len(peaks) |-> TRUE],
                          priorityToPosition |-> priorityToPosition,
                          i |-> Len(peaks) - 2]
    /\ pc' = "for"
    /\ UNCHANGED <<calls, sortOf, x, options, peaks, error, warnings>>

\* A plausible slip: the test of keep[j] is left out, so a peak already
\* removed still removes its neighbours.
DistanceIterationWithoutContinue ==
    /\ pc = "for"
    /\ properties.i >= -1
    /\ properties' =
           [properties EXCEPT
               !.i = properties.i - 1,
               !.keep = IF ~(0 <= properties.i /\ properties.i < Len(peaks))
                        THEN properties.keep
                        ELSE suppressAround(peaks, properties.keep,
                                 properties.priorityToPosition[properties.i + 1],
                                 MathCeil(options.distance))]
    /\ UNCHANGED <<calls, sortOf, x, options, peaks, pc, error, warnings>>

\* One iteration of for (let i = peaksSize - 2; i >= -1; i--): at i = -1, j
\* is undefined and nothing is done.
DistanceIteration ==
    /\ pc = "for"
    /\ properties.i >= -1
    /\ properties' =
           [properties EXCEPT
               !.i = properties.i - 1,
               !.keep = IF ~(0 <= properties.i /\ properties.i < Len(peaks))
                        THEN properties.keep
                        ELSE IF properties.keep[
                                    properties.priorityToPosition[properties.i + 1] + 1] = FALSE
                        THEN properties.keep
                        ELSE suppressAround(peaks, properties.keep,
                                 properties.priorityToPosition[properties.i + 1],
                                 MathCeil(options.distance))]
    /\ UNCHANGED <<calls, sortOf, x, options, peaks, pc, error, warnings>>

\* return keep
ReturnKeep ==
    /\ pc = "for"
    /\ ~(properties.i >= -1)
    /\ pc' = "kept"
    /\ UNCHANGED <<calls, sortOf, x, options, peaks, properties, error, warnings>>

NextDistanceFilter ==
    \/ SortPriorities
    \/ DistanceIteration
    \/ ReturnKeep

SpecDistanceFilter == InitDistanceFilter /\ [][NextDistanceFilter]_vars

\* The positions the loop has been at: those of the loop indices above i.
Visited ==
    {properties.priorityToPosition[h + 1] : h \in (properties.i + 1)..(Len(peaks) - 2)}

\* The loop run one iteration at a time returns the mask findPeaks gets.
LoopReturnsTheMask ==
    pc = "kept" =>
        properties.keep = selectByPeakDistanceSorted(peaks, properties.priorityToPosition,
                                                      options.distance)

\* C27: every peak removed from the returned mask is fewer than ceil(d)
\* samples from a peak the mask retains, and no iteration removes a peak the
\* loop has already been at while it was kept.
C27_NoOverSuppression ==
    /\ [](pc = "kept" =>
            \A k \in 1..Len(peaks) :
                ~properties.keep[k] =>
                    \E j \in 1..Len(peaks) :
                        /\ properties.keep[j]
                        /\ Lt(Distance(peaks[j], peaks[k]), Num(CeilOfDistance)))
    /\ [][pc = "for" =>
            \A k \in 1..Len(peaks) :
                (properties.keep[k] /\ ~properties'.keep[k]) => (k - 1) \notin Visited]_vars

\* Of four adjacent peaks under distance 3 the loop has removed two, each
\* fewer than 3 samples from one of the two it retains.
C27_Witness ==
    /\ pc = "kept"
    /\ peaks = <<Num(0), Num(1), Num(2), Num(3)>>
    /\ options.distance = Num(3)
    /\ Cardinality({k \in 1..Len(peaks) : properties.keep[k]}) = 2

(***************************************************************************)
(* findPeaks with bounds that differ from sample to sample, and with flat  *)
(* arrays of numbers of several lengths as the option value.               *)
(***************************************************************************)

\* A per-sample bound over n samples: 2 at the indices 0 and 1, 0 elsewhere.
Steps(n) == Array([i \in 1..n |-> IF i <= 2 THEN Num(2) ELSE Num(0)])

\* Flat arrays of one to four numbers: 1, 1, 0, 0.
FlatBounds == {Array(SubSeq(<<Num(1), Num(1), Num(0), Num(0)>>, 1, m)) : m \in 1..4}

InitBounds ==
    /\ x \in Signals \cup {ThreePeaks, PlateauAndPeaks}
    /\ options \in [height : {Array(<<Steps(Len(x)), Null>>), Array(<<Null, Steps(Len(x))>>),
                              Array(<<Steps(Len(x)), Steps(Len(x))>>)} \cup FlatBounds,
                    distance : {Undefined},
                    prominence : {Undefined, Array(<<Null, Steps(Len(x))>>)},
                    width : {Undefined}]
    /\ peaks = <<>>
    /\ properties = <<>>
    /\ pc = "validate"
    /\ error = ""
    /\ warnings = {}
    /\ calls = <<>>
    /\ sortOf = <<>>

SpecBounds == InitBounds /\ [][Next]_vars

\* The value of a bound for the peak at signal index p: the element at p of
\* a per-sample array, the scalar itself otherwise.
BoundFor(bound, p) == IF bound.k = "array" THEN ArrayGet(bound.a, p) ELSE bound

\* The sample or property value of the peak at signal index p lies within
\* the two bounds, an absent bound not constraining.
Within(lower, value, upper, p) ==
    /\ isSome(lower) => Le(BoundFor(lower, p), value)
    /\ isSome(upper) => Le(value, BoundFor(upper, p))

\* The first and second element of the array given as options.height.
FirstOfHeight == ArrayGet(options.height.a, Num(0))

SecondOfHeight == ArrayGet(options.height.a, Num(1))

C28_FlatWitness ==
    /\ Returned
    /\ x = ThreePeaks
    /\ options.height = Array(<<Num(1), Num(1), Num(0), Num(0)>>)
    /\ peaks = <<Num(1)>>

\* The evaluation height of the k-th peak.
WidthHeight(k) == properties["widthHeights"].a[k]

\* The position ip reported on one side of a peak is either the index at
\* which the descent stopped, whose sample is not below the height h, or
\* lies strictly between an index i with x[i] < h and its neighbour on the
\* peak's side with h < x[neighbour], at (h - x[i]) / (x[neighbour] - x[i])
\* of the way from i: a fraction strictly between 0 and 1 over a difference
\* that is not 0.
InterpolatedFrom(ip, h, i, neighbour) ==
    IF IsInteger(ip)
    THEN ~Lt(ArrayGet(x, ip), h)
    ELSE /\ IsFinite(ip)
         /\ Lt(ArrayGet(x, i), h)
         /\ Lt(h, ArrayGet(x, neighbour))
         /\ Distance(ip, i) = Div(Sub(h, ArrayGet(x, i)),
                                  Sub(ArrayGet(x, neighbour), ArrayGet(x, i)))
         /\ Lt(Num(0), Distance(ip, i))
         /\ Lt(Distance(ip, i), Num(1))

\* C29: on the data peakProminences produced and at every relative height
\* r >= 0, peakWidths returns leftBase <= leftIp <= peak <= rightIp <=
\* rightBase and a width that is not negative; a position that is not a
\* sample index comes from a division by a non-zero difference and a
\* fraction strictly between 0 and 1.
C29_PositionsBetweenBases ==
    pc = "peakWidths" =>
        \A k \in 1..Len(peaks) :
            /\ Le(LeftBase(k), LeftIp(k))
            /\ Le(LeftIp(k), peaks[k])
            /\ Le(peaks[k], RightIp(k))
            /\ Le(RightIp(k), RightBase(k))
            /\ Le(Num(0), properties["widths"].a[k])
            /\ ValidIndex(peaks[k]) =>
                   /\ InterpolatedFrom(LeftIp(k), WidthHeight(k), FloorNumber(LeftIp(k)),
                                       Add(FloorNumber(LeftIp(k)), Num(1)))
                   /\ InterpolatedFrom(RightIp(k), WidthHeight(k), CeilNumber(RightIp(k)),
                                       Sub(CeilNumber(RightIp(k)), Num(1)))

\* At half the prominence the peak of 0, 2, 0 is crossed half-way up each
\* flank.
C29_Witness ==
    /\ pc = "peakWidths"
    /\ x = <<Num(0), Num(2), Num(0)>>
    /\ peaks = <<Num(1)>>
    /\ options.relHeight = Number(1, 2)
    /\ properties["leftIps"].a = <<Number(1, 2)>>
    /\ properties["rightIps"].a = <<Number(3, 2)>>

\* At twice the prominence the height lies below both bases and the
\* positions are the bases themselves.
C29_WitnessBelowBases ==
    /\ pc = "peakWidths"
    /\ x = <<Num(1), Num(2), Num(0)>>
    /\ peaks = <<Num(1)>>
    /\ options = [wlen |-> Num(-1), relHeight |-> Num(2)]
    /\ properties["leftIps"].a = <<Num(0)>>
    /\ properties["rightIps"].a = <<Num(2)>>

====
